---- MODULE Spec2Model ----
(***************************************************************************)
(* UniExplorer: the map / live-subscription reconciliation loop, the       *)
(* annotation write path and the leaderboard aggregation of the App        *)
(* component (src/unnamed/part_002, the full-featured variant; the two     *)
(* earlier variants in src/uniexplorer/src/App.tsx are modelled where      *)
(* their snapshot handler differs).                                        *)
(*                                                                         *)
(* The event loop is single threaded: one action is one task of the loop   *)
(* (a DOM event handler with the render and effect commit it causes, a     *)
(* promise continuation, a timer callback, a snapshot callback).  The      *)
(* identity provider and the document store are the environment.           *)
(***************************************************************************)
EXTENDS Integers, Sequences, FiniteSets, TLC

(***************************************************************************)
(* Bounds of the model.                                                    *)
(***************************************************************************)
MaxDocs == 2        \* documents other clients add to the collection
MaxWritten == 1     \* size of the collection up to which this client writes
MaxTitleLen == 2    \* characters typed into the title input
MaxWrites == 1      \* addDoc calls in flight
MaxReads == 2       \* getDocs calls in flight
MaxTimers == 1      \* pending showToast timers
MaxNotices == 2     \* pending showToast timers where notices overlap (SpecToast)
MaxBoardDocs == 3   \* documents of a collection enumerated by InitBoard
MaxTileErrors == 2  \* tileerror events of one tile layer

(***************************************************************************)
(* Values.  Null stands for JavaScript null / undefined.                   *)
(***************************************************************************)
Null == "null"

\* celestialBodies[*].name
Bodies == {"Mars", "Moon", "Mercury"}

\* firebase User objects; NoUser is auth.currentUser = null.  u1 and u2 are
\* two accounts with the same display name, u3 has no display name.
NoUser == [uid |-> Null, displayName |-> Null, email |-> Null]
u1 == [uid |-> "u1", displayName |-> "A", email |-> "a@x"]
u2 == [uid |-> "u2", displayName |-> "A", email |-> "b@x"]
u3 == [uid |-> "u3", displayName |-> Null, email |-> "c@x"]
Users == {u1, u2, u3}

\* event.latlng of a map click, as <<lat, lng>>; <<>> is "no position"
Positions == {<<10, 20>>, <<-30, 40>>}
NoPos == <<>>

\* text typed into an input: a sequence of characters
Chars == {" ", "a"}
Titles == UNION {[1..n -> Chars] : n \in 0..MaxTitleLen}
Details == {<<>>, <<" ">>, <<"d">>}

(***************************************************************************)
(* String.prototype.trim                                                   *)
(***************************************************************************)
RECURSIVE TrimStart(_)
TrimStart(s) == IF s # <<>> /\ Head(s) = " " THEN TrimStart(Tail(s)) ELSE s

RECURSIVE TrimEnd(_)
TrimEnd(s) ==
  IF s # <<>> /\ s[Len(s)] = " " THEN TrimEnd(SubSeq(s, 1, Len(s) - 1)) ELSE s

Trim(s) == TrimEnd(TrimStart(s))

(***************************************************************************)
(* The document store.  A document is                                      *)
(*   [lat, lng, text, details, author, celestialBody, userId]              *)
(* and the collection is the sequence of documents in the order a          *)
(* collection read enumerates them; the position is the document id.       *)
(***************************************************************************)
Doc(pos, text, details, author, body, uid) ==
  [lat |-> pos[1], lng |-> pos[2], text |-> text, details |-> details,
   author |-> author, celestialBody |-> body, userId |-> uid]

\* documents written by other clients of the same application
RemoteDocs ==
  { Doc(<<1, 1>>, <<"x">>, Null, "A", "Mars", "u1"),
    Doc(<<1, 1>>, <<"x">>, Null, "A", "Mars", "u2"),
    Doc(<<1, 1>>, <<"x">>, Null, "Anonymous", "Mars", "u3"),
    Doc(<<1, 1>>, <<"x">>, Null, "A", "Moon", "u1") }

VARIABLES
  mounted,                \* the component is mounted (its effects are live)
  currentUser,            \* auth.currentUser
  user,                   \* useState user
  activeBody,             \* useState activeBody (its name)
  showOnlyMyAnnotations,  \* useState showOnlyMyAnnotations
  subs,                   \* live onSnapshot listeners, each the closure of one effect run
  pending,                \* listeners with a notification not yet delivered
  markers,                \* markers on the map
  lastSnapshot,           \* <<document ids of the latest notification>>, <<>> if none since the effect ran
  selectedAnnotation,     \* useState selectedAnnotation, as <<annotation>> or <<>>
  newAnnotationPos,       \* useState newAnnotationPos
  annotationTitle,        \* useState annotationTitle
  annotationDetails,      \* useState annotationDetails
  clickedBody,            \* the active body when the click that opened the form was made, Null while closed
  pendingWrites,          \* addDoc calls awaiting their result
  lastAttempt,            \* <<the latest finished write attempt>>
  showLeaderboard,        \* useState showLeaderboard
  leaderboardData,        \* useState leaderboardData
  stats,                  \* useState stats
  pendingReads,           \* getDocs calls awaiting their result
  intervals,              \* live setInterval(loadStats) timers, each the closure user
  toast,                  \* useState toast
  toastTimers,            \* pending setTimeout(() => setToast('')) callbacks
  store,                  \* the annotations collection
  tileLayers,             \* tile layers attached to the map, each the body it shows
  layerRef,               \* layerRef.current, as <<body>> or <<>>
  mapMaxZoom,             \* the map's maxZoom option
  tileErrorShown,         \* let tileErrorShown of the live effect run
  tileErrors,             \* tileerror events of the live effect run's layer
  tileLogs,               \* console.error('Tile load error') calls of the live effect run
  tileNotices             \* tile-error notices shown by the live effect run

authVars == <<mounted, currentUser, user>>
mapVars == <<activeBody, showOnlyMyAnnotations, subs, pending, markers,
             lastSnapshot, selectedAnnotation>>
formVars == <<newAnnotationPos, annotationTitle, annotationDetails,
              clickedBody>>
writeVars == <<pendingWrites, lastAttempt>>
boardVars == <<showLeaderboard, leaderboardData, stats, pendingReads,
               intervals>>
toastVars == <<toast, toastTimers>>
tileVars == <<tileLayers, layerRef, mapMaxZoom, tileErrorShown, tileErrors,
              tileLogs, tileNotices>>

vars == <<authVars, mapVars, formVars, writeVars, boardVars, toastVars, store,
          tileVars>>

(***************************************************************************)
(* user.displayName ?? user.email ?? 'Unknown' (with user?. for no user)   *)
(***************************************************************************)
CurrentUserName(u) ==
  IF u.displayName # Null THEN u.displayName
  ELSE IF u.email # Null THEN u.email
  ELSE "Unknown"

(***************************************************************************)
(* The live query of one effect run.  A listener is the closure            *)
(* [body, only, user] of the effect run that installed it.                 *)
(***************************************************************************)
Listener(body, only, usr) == [body |-> body, only |-> only, user |-> usr]

\* the author restriction of annotationsQuery, Null for the unfiltered query
QueryAuthorIgnoresSession(l) ==
  IF l.only THEN CurrentUserName(l.user) ELSE Null

QueryAuthor(l) ==
  IF l.only /\ l.user # NoUser THEN CurrentUserName(l.user) ELSE Null

MatchesAuthorOnly(l, d) == QueryAuthor(l) = Null \/ d.author = QueryAuthor(l)

\* where('celestialBody', '==', ...) and where('author', '==', ...)
Matches(l, d) ==
  /\ d.celestialBody = l.body
  /\ (QueryAuthor(l) = Null \/ d.author = QueryAuthor(l))

\* the ids of the documents of a snapshot of the query
RECURSIVE QueryResult(_, _, _)
QueryResult(l, st, n) ==
  IF n = 0 THEN <<>>
  ELSE IF Matches(l, st[n]) THEN Append(QueryResult(l, st, n - 1), n)
  ELSE QueryResult(l, st, n - 1)

Snapshot(l, st) == QueryResult(l, st, Len(st))

NotifiedNever(ls, d) == {}

\* the listeners whose result set contains a new document d
Notified(ls, d) == {l \in ls : Matches(l, d)}

(***************************************************************************)
(* The snapshot callback of the map effect.                                *)
(***************************************************************************)
\* the Annotation built from a document, and whether it is the user's own
MarkerOf(l, st, id) ==
  [id |-> id,
   lat |-> st[id].lat,
   lng |-> st[id].lng,
   text |-> st[id].text,
   author |-> IF st[id].author = Null THEN "Explorer" ELSE st[id].author,
   celestialBody |-> st[id].celestialBody,
   mine |-> l.user # NoUser /\ st[id].author = CurrentUserName(l.user),
   query |-> [body |-> l.body, author |-> QueryAuthor(l)]]

RECURSIVE BuildMarkers(_, _, _)
BuildMarkers(l, st, snap) ==
  IF snap = <<>> THEN <<>>
  ELSE <<MarkerOf(l, st, Head(snap))>> \o BuildMarkers(l, st, Tail(snap))

OnSnapshotKeepOld(old, l, st, snap) == old \o BuildMarkers(l, st, snap)

\* markers.forEach(remove); markers.length = 0; snapshot.forEach(... push)
OnSnapshotMarkers(old, l, st, snap) == BuildMarkers(l, st, snap)

\* the first variant (App.tsx) skips a document of another body:
\*   if (annotation.celestialBody !== activeBody.name) return
RECURSIVE OnSnapshotMarkersV1(_, _, _, _)
OnSnapshotMarkersV1(old, l, st, snap) ==
  IF snap = <<>> THEN <<>>
  ELSE IF st[Head(snap)].celestialBody # l.body
       THEN OnSnapshotMarkersV1(old, l, st, Tail(snap))
       ELSE <<MarkerOf(l, st, Head(snap))>>
              \o OnSnapshotMarkersV1(old, l, st, Tail(snap))

(***************************************************************************)
(* The map effect: cleanup of the previous run, then the new run.          *)
(***************************************************************************)
CleanupKeepListeners(ls) == ls

\* unsubscribeAnnotations()
CleanupListeners(ls) == {}

CleanupKeepMarkers(ms) == ms

\* markers.forEach((marker) => marker.remove()); map.remove()
CleanupMarkers(ms) == <<>>

MapEffect(body, only, usr) ==
  /\ subs' = CleanupListeners(subs) \cup {Listener(body, only, usr)}
  /\ pending' = (pending \cap CleanupListeners(subs)) \cup {Listener(body, only, usr)}
  /\ markers' = CleanupMarkers(markers)
  /\ lastSnapshot' = <<>>

(***************************************************************************)
(* The statistics effect: clearInterval, loadStats(), setInterval.         *)
(***************************************************************************)
\* a getDocs call in flight: who started it (loadStats or loadLeaderboard),
\* the user of the closure that started it, and the collection it reads (the
\* first n documents: the collection as it was when the read was issued)
Read(kind, usr, n) == [kind |-> kind, user |-> usr, n |-> n]

CanStartRead(r) == r \in pendingReads \/ Cardinality(pendingReads) < MaxReads

StatsEffectCancelsReads(usr) ==
  /\ intervals' = {usr}
  /\ pendingReads' = {Read("stats", usr, Len(store))}

StatsEffectKeepsInterval(usr) ==
  /\ intervals' = intervals \cup {usr}
  /\ pendingReads' = pendingReads \cup {Read("stats", usr, Len(store))}

StatsEffect(usr) ==
  /\ intervals' = {usr}
  /\ pendingReads' = pendingReads \cup {Read("stats", usr, Len(store))}

(***************************************************************************)
(* The tile layer of the map (App.tsx: the tile layer effect of the first  *)
(* variant, the tileerror handler of the second).                          *)
(***************************************************************************)
\* the registry: maxZoom of Mars and Moon as in App.tsx, Mercury as added by
\* the later variants
celestialBodies ==
  [Mars |-> [maxZoom |-> 7], Moon |-> [maxZoom |-> 8],
   Mercury |-> [maxZoom |-> 7]]

RemoveLayerKeepsOld(layers, ref) == layers

\* if (layerRef.current) { map.removeLayer(layerRef.current) }
RemoveLayer(layers, ref) == layers \ {ref[i] : i \in 1..Len(ref)}

\* the tile layer effect: remove the old layer, setMaxZoom, add the new layer
TileLayerEffect(b) ==
  /\ tileLayers' = RemoveLayer(tileLayers, layerRef) \cup {b}
  /\ layerRef' = <<b>>
  /\ mapMaxZoom' = celestialBodies[b].maxZoom

ActivationKeepsFlag(shown) == shown

\* let tileErrorShown = false, in a new run of the map effect
ActivationFlag(shown) == FALSE

TileErrorReset ==
  /\ tileErrorShown' = ActivationFlag(tileErrorShown)
  /\ tileErrors' = 0
  /\ tileLogs' = 0
  /\ tileNotices' = 0

(***************************************************************************)
(* The mounted component with user u and the getDocs calls reads in        *)
(* flight: both effects have run for u, no notification has been           *)
(* delivered, the form and the modals are closed.                          *)
(***************************************************************************)
Mounted(u, reads) ==
  /\ mounted = TRUE
  /\ currentUser = u
  /\ user = u
  /\ activeBody = "Mars"
  /\ showOnlyMyAnnotations = FALSE
  /\ subs = {Listener("Mars", FALSE, u)}
  /\ pending = {Listener("Mars", FALSE, u)}
  /\ markers = <<>>
  /\ lastSnapshot = <<>>
  /\ selectedAnnotation = <<>>
  /\ newAnnotationPos = NoPos
  /\ annotationTitle = <<>>
  /\ annotationDetails = <<>>
  /\ clickedBody = Null
  /\ pendingWrites = {}
  /\ lastAttempt = <<>>
  /\ showLeaderboard = FALSE
  /\ leaderboardData = <<>>
  /\ stats = [totalDiscoveries |-> 0, totalExplorers |-> 0, yourRank |-> 0]
  /\ pendingReads = reads
  /\ intervals = {u}
  /\ toast = ""
  /\ toastTimers = 0
  /\ tileLayers = {"Mars"}
  /\ layerRef = <<"Mars">>
  /\ mapMaxZoom = celestialBodies["Mars"].maxZoom
  /\ tileErrorShown = FALSE
  /\ tileErrors = 0
  /\ tileLogs = 0
  /\ tileNotices = 0

(***************************************************************************)
(* Initial state: the component is mounted, nobody is signed in, both      *)
(* effects have run once.                                                  *)
(***************************************************************************)
InitUI == Mounted(NoUser, {Read("stats", NoUser, Len(store))})

Init ==
  /\ store = <<>>
  /\ InitUI

\* a backdrop (position fixed, inset 0) covers the page while a modal is open
Backdrop ==
  newAnnotationPos # NoPos \/ showLeaderboard \/ selectedAnnotation # <<>>

(***************************************************************************)
(* onAuthStateChanged(auth, setUser): the session changed (sign-in,        *)
(* sign-out, restored or ended session); both effects depend on user.      *)
(***************************************************************************)
SetUser(u) ==
  /\ u # currentUser
  /\ CanStartRead(Read("stats", u, Len(store)))
  /\ currentUser' = u
  /\ user' = u
  /\ StatsEffect(u)
  /\ MapEffect(activeBody, showOnlyMyAnnotations, u)
  /\ UNCHANGED <<mounted, activeBody, showOnlyMyAnnotations,
                 selectedAnnotation, formVars, writeVars, showLeaderboard,
                 leaderboardData, stats, store>>
  /\ UNCHANGED tileVars

OnAuthStateChanged(u) ==
  /\ SetUser(u)
  /\ UNCHANGED toastVars

(***************************************************************************)
(* Destination button: setActiveBody(body)                                 *)
(***************************************************************************)
SetActiveBody(b) ==
  /\ ~Backdrop
  /\ b # activeBody
  /\ activeBody' = b
  /\ MapEffect(b, showOnlyMyAnnotations, user)
  /\ UNCHANGED <<authVars, showOnlyMyAnnotations, selectedAnnotation,
                 formVars, writeVars, boardVars, toastVars, store>>
  /\ TileLayerEffect(b)
  /\ TileErrorReset

(***************************************************************************)
(* Filter checkbox, rendered only for a signed-in user                     *)
(***************************************************************************)
ToggleFilter ==
  /\ ~Backdrop
  /\ user # NoUser
  /\ showOnlyMyAnnotations' = ~showOnlyMyAnnotations
  /\ MapEffect(activeBody, ~showOnlyMyAnnotations, user)
  /\ UNCHANGED <<authVars, activeBody, selectedAnnotation,
                 formVars, writeVars, boardVars, toastVars, store>>
  /\ UNCHANGED tileVars

(***************************************************************************)
(* The snapshot callback of a live listener                                *)
(***************************************************************************)
OnSnapshot(l) ==
  /\ l \in pending
  /\ l \in subs
  /\ markers' = OnSnapshotMarkers(markers, l, store, Snapshot(l, store))
  /\ lastSnapshot' = <<Snapshot(l, store)>>
  /\ pending' = pending \ {l}
  /\ UNCHANGED <<authVars, activeBody, showOnlyMyAnnotations, subs,
                 selectedAnnotation, formVars, writeVars, boardVars,
                 toastVars, store>>
  /\ UNCHANGED tileVars

(***************************************************************************)
(* Another client adds a document to the collection                        *)
(***************************************************************************)
RemoteWrite(d) ==
  /\ Len(store) < MaxDocs
  /\ store' = Append(store, d)
  /\ pending' = pending \cup Notified(subs, d)
  /\ UNCHANGED <<authVars, activeBody, showOnlyMyAnnotations, subs, markers,
                 lastSnapshot, selectedAnnotation, formVars, writeVars,
                 boardVars, toastVars>>
  /\ UNCHANGED tileVars

(***************************************************************************)
(* The live query fails.  onSnapshot is called without an error callback:  *)
(* the listener receives nothing further and no code of the page runs.     *)
(***************************************************************************)
OnErrorClearsMarkers(ms) == <<>>

\* the markers after the listener failed
OnErrorMarkers(ms) == ms

OnSnapshotError(l) ==
  /\ l \in subs
  /\ subs' = subs \ {l}
  /\ pending' = pending \ {l}
  /\ markers' = OnErrorMarkers(markers)
  /\ UNCHANGED <<authVars, activeBody, showOnlyMyAnnotations, lastSnapshot,
                 selectedAnnotation, formVars, writeVars, boardVars,
                 toastVars, store, tileVars>>

(***************************************************************************)
(* loadStats: the collection read fails; console.error only                *)
(***************************************************************************)
LoadStatsFail(r) ==
  /\ r \in pendingReads
  /\ r.kind = "stats"
  /\ pendingReads' = pendingReads \ {r}
  /\ UNCHANGED <<authVars, mapVars, formVars, writeVars, showLeaderboard,
                 leaderboardData, stats, intervals, toastVars, store>>
  /\ UNCHANGED tileVars

(***************************************************************************)
(* showToast: setToast(message); setTimeout(() => setToast(''), 3000)      *)
(***************************************************************************)
\* showToast with at most cap timers pending
ShowToastUpTo(message, cap) ==
  /\ toastTimers < cap
  /\ toast' = message
  /\ toastTimers' = toastTimers + 1

ShowToast(message) == ShowToastUpTo(message, MaxTimers)

\* the timer of a showToast call fires
ToastTimeout ==
  /\ toastTimers > 0
  /\ toast' = ""
  /\ toastTimers' = toastTimers - 1
  /\ UNCHANGED <<authVars, mapVars, formVars, writeVars, boardVars, store>>
  /\ UNCHANGED tileVars

(***************************************************************************)
(* tileLayer.on('tileerror'): console.error, and a notice unless this      *)
(* effect run has shown one.                                               *)
(***************************************************************************)
TileError ==
  /\ tileErrors < MaxTileErrors
  /\ tileErrors' = tileErrors + 1
  /\ tileLogs' = tileLogs + 1
  /\ IF ~tileErrorShown
     THEN /\ ShowToast("Tile load error")
          /\ tileErrorShown' = TRUE
          /\ tileNotices' = tileNotices + 1
     ELSE UNCHANGED <<toastVars, tileErrorShown, tileNotices>>
  /\ UNCHANGED <<authVars, mapVars, formVars, writeVars, boardVars, store,
                 tileLayers, layerRef, mapMaxZoom>>

(***************************************************************************)
(* A write attempt, as the properties see it: whether a session existed    *)
(* when it was made, whether it called addDoc, how many notices it showed. *)
(***************************************************************************)
Attempt(kind, session, addDoc, notices) ==
  [kind |-> kind, session |-> session, addDoc |-> addDoc, notices |-> notices]

(***************************************************************************)
(* map.on('click'): without a session a notice, otherwise the creation     *)
(* modal opens at the clicked position.                                    *)
(***************************************************************************)
MapClick(p) ==
  /\ ~Backdrop
  /\ IF currentUser = NoUser
     THEN /\ ShowToast("Please sign in to add markers")
          /\ lastAttempt' = <<Attempt("click", FALSE, FALSE, 1)>>
          /\ UNCHANGED <<newAnnotationPos, clickedBody>>
     ELSE /\ newAnnotationPos' = p
          /\ clickedBody' = activeBody
          /\ UNCHANGED <<lastAttempt, toastVars>>
  /\ UNCHANGED <<authVars, mapVars, annotationTitle, annotationDetails,
                 pendingWrites, boardVars, store>>
  /\ UNCHANGED tileVars

\* title input onChange
SetAnnotationTitle(t) ==
  /\ newAnnotationPos # NoPos
  /\ t # annotationTitle
  /\ annotationTitle' = t
  /\ UNCHANGED <<authVars, mapVars, newAnnotationPos, annotationDetails,
                 clickedBody, writeVars, boardVars, toastVars, store>>
  /\ UNCHANGED tileVars

\* details textarea onChange
SetAnnotationDetails(t) ==
  /\ newAnnotationPos # NoPos
  /\ t # annotationDetails
  /\ annotationDetails' = t
  /\ UNCHANGED <<authVars, mapVars, newAnnotationPos, annotationTitle,
                 clickedBody, writeVars, boardVars, toastVars, store>>
  /\ UNCHANGED tileVars

CancelAnnotationKeepsText ==
  /\ newAnnotationPos # NoPos
  /\ newAnnotationPos' = NoPos
  /\ clickedBody' = Null
  /\ UNCHANGED <<annotationTitle, annotationDetails>>
  /\ UNCHANGED <<authVars, mapVars, writeVars, boardVars, toastVars, store>>
  /\ UNCHANGED tileVars

\* Cancel button and modal backdrop
CancelAnnotation ==
  /\ newAnnotationPos # NoPos
  /\ newAnnotationPos' = NoPos
  /\ annotationTitle' = <<>>
  /\ annotationDetails' = <<>>
  /\ clickedBody' = Null
  /\ UNCHANGED <<authVars, mapVars, writeVars, boardVars, toastVars, store>>
  /\ UNCHANGED tileVars

(***************************************************************************)
(* handleSubmitAnnotation up to its await                                  *)
(***************************************************************************)
\* disabled={!annotationTitle.trim()}
SubmitDisabled(title) == Trim(title) = <<>>

\* if (!newAnnotationPos || !annotationTitle.trim()) return
SubmitReturnsEarly(pos, title) == pos = NoPos \/ Trim(title) = <<>>

NewAnnotationUntrimmed(pos, title, details, cu, body) ==
  Doc(pos, title,
      IF Trim(details) = <<>> THEN Null ELSE "details",
      IF cu.displayName # Null THEN cu.displayName ELSE "Anonymous",
      body, cu.uid)

NewAnnotationNoFallback(pos, title, details, cu, body) ==
  Doc(pos, Trim(title),
      IF Trim(details) = <<>> THEN Null ELSE "details",
      cu.displayName,
      body, cu.uid)

\* the object handed to addDoc
NewAnnotation(pos, title, details, cu, body) ==
  Doc(pos, Trim(title),
      IF Trim(details) = <<>> THEN Null ELSE "details",
      IF cu.displayName # Null THEN cu.displayName ELSE "Anonymous",
      body, cu.uid)

HandleSubmitAnnotation ==
  /\ newAnnotationPos # NoPos
  /\ ~SubmitDisabled(annotationTitle)
  /\ Cardinality(pendingWrites) < MaxWrites
  /\ Len(store) + Cardinality(pendingWrites) < MaxWritten
  /\ IF SubmitReturnsEarly(newAnnotationPos, annotationTitle)
     THEN UNCHANGED pendingWrites
     ELSE pendingWrites' = pendingWrites \cup
            {[doc |-> NewAnnotation(newAnnotationPos, annotationTitle,
                                    annotationDetails, currentUser, activeBody),
              session |-> currentUser # NoUser,
              input |-> "form"]}
  /\ UNCHANGED <<authVars, mapVars, formVars, lastAttempt, boardVars,
                 toastVars, store>>
  /\ UNCHANGED tileVars

\* addDoc resolved: the document is in the collection
AddDocResolved(w) ==
  /\ w \in pendingWrites
  /\ pendingWrites' = pendingWrites \ {w}
  /\ store' = Append(store, w.doc)
  /\ pending' = pending \cup Notified(subs, w.doc)
  /\ ShowToast("Discovery added! +1 to your count!")
  /\ newAnnotationPos' = NoPos
  /\ annotationTitle' = <<>>
  /\ annotationDetails' = <<>>
  /\ clickedBody' = Null
  /\ lastAttempt' = <<Attempt("submit", w.session, TRUE, 1)>>
  /\ UNCHANGED <<authVars, activeBody, showOnlyMyAnnotations, subs, markers,
                 lastSnapshot, selectedAnnotation, boardVars>>
  /\ UNCHANGED tileVars

\* addDoc rejected: console.error and a notice
AddDocRejected(w) ==
  /\ w \in pendingWrites
  /\ pendingWrites' = pendingWrites \ {w}
  /\ ShowToast("Failed to save discovery")
  /\ lastAttempt' = <<Attempt("submit", w.session, TRUE, 1)>>
  /\ UNCHANGED <<authVars, mapVars, formVars, boardVars, store>>
  /\ UNCHANGED tileVars

(***************************************************************************)
(* The write path of the earlier variants (App.tsx): map.on('click')       *)
(* asks for the description with window.prompt and calls addDoc itself;    *)
(* position and description are locals of the handler.                     *)
(***************************************************************************)
\* the object handed to addDoc by the click handler
PromptAnnotation(pos, description, cu, body) ==
  Doc(pos, description, Null,
      IF cu.displayName # Null THEN cu.displayName ELSE "Anonymous",
      body, cu.uid)

\* map.on('click') up to its await; t is what the user types into the prompt
MapClickPrompt(p, t) ==
  /\ IF currentUser = NoUser
     THEN /\ ShowToast("Please sign in to add a discovery tag.")
          /\ lastAttempt' = <<Attempt("click", FALSE, FALSE, 1)>>
          /\ UNCHANGED pendingWrites
     ELSE IF Trim(t) = <<>>
     THEN UNCHANGED <<pendingWrites, lastAttempt, toastVars>>
     ELSE /\ Cardinality(pendingWrites) < MaxWrites
          /\ Len(store) + Cardinality(pendingWrites) < MaxWritten
          /\ pendingWrites' = pendingWrites \cup
                {[doc |-> PromptAnnotation(p, Trim(t), currentUser, activeBody),
                  session |-> TRUE,
                  input |-> "prompt"]}
          /\ UNCHANGED <<lastAttempt, toastVars>>
  /\ UNCHANGED <<authVars, mapVars, formVars, boardVars, store, tileVars>>

\* addDoc of the click handler resolved
PromptAddDocResolved(w) ==
  /\ w \in pendingWrites
  /\ pendingWrites' = pendingWrites \ {w}
  /\ store' = Append(store, w.doc)
  /\ pending' = pending \cup Notified(subs, w.doc)
  /\ ShowToast("Discovery tag added!")
  /\ lastAttempt' = <<Attempt("submit", w.session, TRUE, 1)>>
  /\ UNCHANGED <<authVars, activeBody, showOnlyMyAnnotations, subs, markers,
                 lastSnapshot, selectedAnnotation, formVars, boardVars,
                 tileVars>>

\* addDoc of the click handler rejected: console.error and a notice
PromptAddDocRejected(w) ==
  /\ w \in pendingWrites
  /\ pendingWrites' = pendingWrites \ {w}
  /\ ShowToast("Unable to save your discovery right now. Please try again.")
  /\ lastAttempt' = <<Attempt("submit", w.session, TRUE, 1)>>
  /\ UNCHANGED <<authVars, mapVars, formVars, boardVars, store, tileVars>>

(***************************************************************************)
(* Aggregation: loadStats and loadLeaderboard                              *)
(***************************************************************************)
TopN == 10

\* doc.data().author ?? 'Anonymous'
AuthorOf(d) == IF d.author = Null THEN "Anonymous" ELSE d.author

\* counts[author] = (counts[author] || 0) + 1, the object kept as the
\* sequence of its [author, count] properties in insertion order
\* A name the counts object never stores: counts['__proto__'] reads
\* Object.prototype, a truthy object, and assigning the resulting string
\* '[object Object]1' to __proto__ is ignored.
ProtoKey == "__proto__"

AddCountNoMerge(counts, a) == Append(counts, [author |-> a, count |-> 1])

RECURSIVE AddCount(_, _)
AddCount(counts, a) ==
  IF a = ProtoKey THEN counts
  ELSE IF counts = <<>> THEN <<[author |-> a, count |-> 1]>>
  ELSE IF Head(counts).author = a
       THEN <<[author |-> a, count |-> Head(counts).count + 1]>> \o Tail(counts)
       ELSE <<Head(counts)>> \o AddCount(Tail(counts), a)

\* snapshot.forEach over the first n documents
RECURSIVE CountAuthors(_, _)
CountAuthors(snap, n) ==
  IF n = 0 THEN <<>>
  ELSE AddCount(CountAuthors(snap, n - 1), AuthorOf(snap[n]))

\* Property names that are array indices ("3", "7") and their values.  A
\* JavaScript object enumerates these first, in ascending numeric order, and
\* the other names after them in insertion order.
IndexKeyValue == ("3" :> 3) @@ ("7" :> 7)
IsIndexKey(a) == a \in DOMAIN IndexKeyValue

RECURSIVE InsertByIndex(_, _)
InsertByIndex(sorted, e) ==
  IF sorted = <<>> THEN <<e>>
  ELSE IF IndexKeyValue[Head(sorted).author] < IndexKeyValue[e.author]
       THEN <<Head(sorted)>> \o InsertByIndex(Tail(sorted), e)
       ELSE <<e>> \o sorted

RECURSIVE SortByIndex(_, _)
SortByIndex(es, n) ==
  IF n = 0 THEN <<>> ELSE InsertByIndex(SortByIndex(es, n - 1), es[n])

IsIndexEntry(e) == IsIndexKey(e.author)
IsNameEntry(e) == ~IsIndexKey(e.author)

\* Object.entries(counts)
ObjectEntries(counts) ==
  SortByIndex(SelectSeq(counts, IsIndexEntry),
              Len(SelectSeq(counts, IsIndexEntry)))
    \o SelectSeq(counts, IsNameEntry)

RECURSIVE InsertByCountAscending(_, _)
InsertByCountAscending(sorted, e) ==
  IF sorted = <<>> THEN <<e>>
  ELSE IF Head(sorted).count <= e.count
       THEN <<Head(sorted)>> \o InsertByCountAscending(Tail(sorted), e)
       ELSE <<e>> \o sorted

\* one step of the stable sort: e goes behind every entry that does not
\* compare after it under (a, b) => b.count - a.count
RECURSIVE InsertByCount(_, _)
InsertByCount(sorted, e) ==
  IF sorted = <<>> THEN <<e>>
  ELSE IF Head(sorted).count >= e.count
       THEN <<Head(sorted)>> \o InsertByCount(Tail(sorted), e)
       ELSE <<e>> \o sorted

\* .sort((a, b) => b.count - a.count), a stable sort
RECURSIVE SortByCount(_, _)
SortByCount(es, n) ==
  IF n = 0 THEN <<>> ELSE InsertByCount(SortByCount(es, n - 1), es[n])

\* .slice(0, k)
Slice(es, k) == SubSeq(es, 1, IF Len(es) < k THEN Len(es) ELSE k)

\* .findIndex(([author]) => author === name): 0-based, -1 if absent
FindIndex(es, name) ==
  IF \E i \in 1..Len(es) : es[i].author = name
  THEN (CHOOSE i \in 1..Len(es) :
          /\ es[i].author = name
          /\ \A j \in 1..(i - 1) : es[j].author # name) - 1
  ELSE -1

SortedEntries(snap) ==
  SortByCount(ObjectEntries(CountAuthors(snap, Len(snap))),
              Len(ObjectEntries(CountAuthors(snap, Len(snap)))))

\* yourRank of loadStats
LoadStatsRank(usr, snap) ==
  IF usr # NoUser
  THEN FindIndex(SortedEntries(snap), CurrentUserName(usr)) + 1
  ELSE 0

LoadLeaderboardRankInTopN(usr, snap) ==
  FindIndex(Slice(SortedEntries(snap), TopN), CurrentUserName(usr)) + 1

\* yourRank of loadLeaderboard
LoadLeaderboardRank(usr, snap) ==
  FindIndex(SortedEntries(snap), CurrentUserName(usr)) + 1

\* the leaderboard list of loadLeaderboard
LeaderboardOf(snap) == Slice(SortedEntries(snap), TopN)

StatsOf(snap, rank) ==
  [totalDiscoveries |-> Len(snap),
   totalExplorers |-> Len(CountAuthors(snap, Len(snap))),
   yourRank |-> rank]

\* the documents a read in flight returns
SnapOf(r) == SubSeq(store, 1, r.n)

\* setInterval(loadStats, 30000) fires
Tick(u) ==
  /\ u \in intervals
  /\ CanStartRead(Read("stats", u, Len(store)))
  /\ pendingReads' = pendingReads \cup {Read("stats", u, Len(store))}
  /\ UNCHANGED <<authVars, mapVars, formVars, writeVars, showLeaderboard,
                 leaderboardData, stats, intervals, toastVars, store>>
  /\ UNCHANGED tileVars

\* Leaderboard button: loadLeaderboard up to its await
LoadLeaderboard ==
  /\ ~Backdrop
  /\ CanStartRead(Read("board", user, Len(store)))
  /\ pendingReads' = pendingReads \cup {Read("board", user, Len(store))}
  /\ UNCHANGED <<authVars, mapVars, formVars, writeVars, showLeaderboard,
                 leaderboardData, stats, intervals, toastVars, store>>
  /\ UNCHANGED tileVars

\* loadStats after its await
LoadStatsResolved(r) ==
  /\ r \in pendingReads
  /\ r.kind = "stats"
  /\ pendingReads' = pendingReads \ {r}
  /\ stats' = StatsOf(SnapOf(r), LoadStatsRank(r.user, SnapOf(r)))
  /\ UNCHANGED <<authVars, mapVars, formVars, writeVars, showLeaderboard,
                 leaderboardData, intervals, toastVars, store>>
  /\ UNCHANGED tileVars

\* loadLeaderboard after its await
LoadLeaderboardResolved(r) ==
  /\ r \in pendingReads
  /\ r.kind = "board"
  /\ pendingReads' = pendingReads \ {r}
  /\ leaderboardData' = LeaderboardOf(SnapOf(r))
  /\ stats' = StatsOf(SnapOf(r), LoadLeaderboardRank(r.user, SnapOf(r)))
  /\ showLeaderboard' = TRUE
  /\ UNCHANGED <<authVars, mapVars, formVars, writeVars, intervals,
                 toastVars, store>>
  /\ UNCHANGED tileVars

LoadLeaderboardFailOpens(r) ==
  /\ r \in pendingReads
  /\ r.kind = "board"
  /\ pendingReads' = pendingReads \ {r}
  /\ ShowToast("Failed to load leaderboard")
  /\ showLeaderboard' = TRUE
  /\ UNCHANGED <<authVars, mapVars, formVars, writeVars,
                 leaderboardData, stats, intervals, store>>
  /\ UNCHANGED tileVars

\* loadLeaderboard: the collection read fails
LoadLeaderboardFail(r) ==
  /\ r \in pendingReads
  /\ r.kind = "board"
  /\ pendingReads' = pendingReads \ {r}
  /\ ShowToast("Failed to load leaderboard")
  /\ UNCHANGED <<authVars, mapVars, formVars, writeVars, showLeaderboard,
                 leaderboardData, stats, intervals, store>>
  /\ UNCHANGED tileVars

\* close button and backdrop of the leaderboard modal
CloseLeaderboard ==
  /\ showLeaderboard
  /\ showLeaderboard' = FALSE
  /\ UNCHANGED <<authVars, mapVars, formVars, writeVars, leaderboardData,
                 stats, pendingReads, intervals, toastVars, store>>
  /\ UNCHANGED tileVars

Next ==
  \/ \E u \in Users \cup {NoUser} : OnAuthStateChanged(u)
  \/ \E b \in Bodies : SetActiveBody(b)
  \/ ToggleFilter
  \/ \E l \in subs : OnSnapshot(l)
  \/ \E d \in RemoteDocs : RemoteWrite(d)
  \/ \E r \in pendingReads : LoadStatsFail(r)

Spec == Init /\ [][Next]_vars

(***************************************************************************)
(* The write path: sessions, map clicks, the creation form, submissions.   *)
(***************************************************************************)
NextWrite ==
  \/ \E u \in Users \cup {NoUser} : OnAuthStateChanged(u)
  \/ \E p \in Positions : MapClick(p)
  \/ \E t \in Titles : SetAnnotationTitle(t)
  \/ CancelAnnotation
  \/ HandleSubmitAnnotation
  \/ \E w \in pendingWrites : AddDocResolved(w)
  \/ \E w \in pendingWrites : AddDocRejected(w)
  \/ ToastTimeout
  \/ \E r \in pendingReads : LoadStatsFail(r)

SpecWrite == Init /\ [][NextWrite]_vars

(***************************************************************************)
(* The creation form under a session that does not change: the component   *)
(* as it is once a session was restored (or none exists) on an empty        *)
(* collection and the first loadStats has settled.                          *)
(***************************************************************************)
InitForm ==
  /\ store = <<>>
  /\ \E u \in Users \cup {NoUser} : Mounted(u, {})

NextForm ==
  \/ \E p \in Positions : MapClick(p)
  \/ \E t \in Titles : SetAnnotationTitle(t)
  \/ \E t \in Details : SetAnnotationDetails(t)
  \/ CancelAnnotation
  \/ HandleSubmitAnnotation
  \/ \E w \in pendingWrites : AddDocResolved(w)
  \/ \E w \in pendingWrites : AddDocRejected(w)
  \/ ToastTimeout

SpecForm == InitForm /\ [][NextForm]_vars

(***************************************************************************)
(* The prompt-based write path of the earlier variants under a session     *)
(* that does not change, with body switches and notifications.             *)
(***************************************************************************)
NextPrompt ==
  \/ \E p \in Positions, t \in Titles : MapClickPrompt(p, t)
  \/ \E w \in pendingWrites : PromptAddDocResolved(w)
  \/ \E w \in pendingWrites : PromptAddDocRejected(w)
  \/ \E b \in Bodies : SetActiveBody(b)
  \/ \E l \in subs : OnSnapshot(l)
  \/ ToastTimeout

SpecPrompt == InitForm /\ [][NextPrompt]_vars

(***************************************************************************)
(* The live query with failures: body switches, remote writes,             *)
(* notifications and errors of the listener.                               *)
(***************************************************************************)
NextListen ==
  \/ \E b \in Bodies : SetActiveBody(b)
  \/ \E l \in subs : OnSnapshot(l)
  \/ \E l \in subs : OnSnapshotError(l)
  \/ \E d \in RemoteDocs : RemoteWrite(d)

SpecListen == Init /\ [][NextListen]_vars

(***************************************************************************)
(* The tile layer: body switches and tile errors, with the notifications   *)
(* of the live query.                                                      *)
(***************************************************************************)
NextTile ==
  \/ \E b \in Bodies : SetActiveBody(b)
  \/ TileError
  \/ ToastTimeout
  \/ \E l \in subs : OnSnapshot(l)
  \/ \E d \in RemoteDocs : RemoteWrite(d)

SpecTile == Init /\ [][NextTile]_vars

(***************************************************************************)
(* One-shot reads across teardowns: session changes, body switches and     *)
(* the leaderboard view over a collection of one document.                 *)
(***************************************************************************)
InitStale ==
  /\ store \in {<<d>> : d \in RemoteDocs}
  /\ InitUI

NextStale ==
  \/ \E u \in Users \cup {NoUser} : OnAuthStateChanged(u)
  \/ \E b \in Bodies : SetActiveBody(b)
  \/ \E u \in intervals : Tick(u)
  \/ LoadLeaderboard
  \/ \E r \in pendingReads : LoadStatsResolved(r)
  \/ \E r \in pendingReads : LoadStatsFail(r)
  \/ \E r \in pendingReads : LoadLeaderboardResolved(r)
  \/ \E r \in pendingReads : LoadLeaderboardFail(r)
  \/ CloseLeaderboard
  \/ ToastTimeout

SpecStale == InitStale /\ [][NextStale]_vars

(***************************************************************************)
(* The write path together with the live query, under a session that does *)
(* not change; notifications are tasks of the event loop and are           *)
(* eventually run.                                                         *)
(***************************************************************************)
LiveTitles == {<<"a">>, <<" ">>}

NextLive ==
  \/ \E p \in Positions : MapClick(p)
  \/ \E t \in LiveTitles : SetAnnotationTitle(t)
  \/ CancelAnnotation
  \/ HandleSubmitAnnotation
  \/ \E w \in pendingWrites : AddDocResolved(w)
  \/ \E w \in pendingWrites : AddDocRejected(w)
  \/ ToastTimeout
  \/ \E b \in Bodies : SetActiveBody(b)
  \/ ToggleFilter
  \/ \E l \in subs : OnSnapshot(l)

SpecLive ==
  /\ InitForm
  /\ [][NextLive]_vars
  /\ WF_vars(\E l \in subs : OnSnapshot(l))

(***************************************************************************)
(* The aggregation over every collection of up to MaxBoardDocs documents   *)
(***************************************************************************)
\* documents as the aggregation sees them: authors with a display name,
\* without one, without an author field, named 'Unknown', with names that
\* are array indices, and named '__proto__'
BoardDocs ==
  { Doc(<<1, 1>>, <<"x">>, Null, "A", "Mars", "u1"),
    Doc(<<1, 1>>, <<"x">>, Null, "Anonymous", "Moon", "u3"),
    Doc(<<1, 1>>, <<"x">>, Null, Null, "Mars", Null),
    Doc(<<1, 1>>, <<"x">>, Null, "Unknown", "Mars", "u4"),
    Doc(<<1, 1>>, <<"x">>, Null, "7", "Moon", "u7"),
    Doc(<<1, 1>>, <<"x">>, Null, "3", "Mars", "u8"),
    Doc(<<1, 1>>, <<"x">>, Null, ProtoKey, "Mars", "u9") }

BoardStores == UNION {[1..n -> BoardDocs] : n \in 0..MaxBoardDocs}

InitBoard ==
  /\ store \in BoardStores
  /\ InitUI

NextBoard ==
  \/ \E u \in Users \cup {NoUser} : OnAuthStateChanged(u)
  \/ \E u \in intervals : Tick(u)
  \/ LoadLeaderboard
  \/ \E r \in pendingReads : LoadStatsResolved(r)
  \/ \E r \in pendingReads : LoadStatsFail(r)
  \/ \E r \in pendingReads : LoadLeaderboardResolved(r)
  \/ \E r \in pendingReads : LoadLeaderboardFail(r)
  \/ CloseLeaderboard
  \/ ToastTimeout

SpecBoard == InitBoard /\ [][NextBoard]_vars

(***************************************************************************)
(* The leaderboard of every such collection under a session that does not  *)
(* change: the list loadLeaderboard builds is a function of the collection *)
(* read alone.                                                             *)
(***************************************************************************)
NextSort ==
  \/ LoadLeaderboard
  \/ \E r \in pendingReads : LoadStatsResolved(r)
  \/ \E r \in pendingReads : LoadStatsFail(r)
  \/ \E r \in pendingReads : LoadLeaderboardResolved(r)
  \/ \E r \in pendingReads : LoadLeaderboardFail(r)
  \/ CloseLeaderboard
  \/ ToastTimeout

SpecSort == InitBoard /\ [][NextSort]_vars

(***************************************************************************)
(* One collection: three documents for Mars by A, A, B and two for Moon by *)
(* C, viewed body by body and aggregated.                                  *)
(***************************************************************************)
ScenarioStore ==
  << Doc(<<10, 20>>, <<"x">>, Null, "A", "Mars", "uA"),
     Doc(<<-30, 40>>, <<"x">>, Null, "A", "Mars", "uA"),
     Doc(<<10, 20>>, <<"x">>, Null, "B", "Mars", "uB"),
     Doc(<<10, 20>>, <<"x">>, Null, "C", "Moon", "uC"),
     Doc(<<-30, 40>>, <<"x">>, Null, "C", "Moon", "uC") >>

InitScenario ==
  /\ store = ScenarioStore
  /\ InitUI

NextScenario ==
  \/ \E b \in Bodies : SetActiveBody(b)
  \/ \E l \in subs : OnSnapshot(l)
  \/ LoadLeaderboard
  \/ \E r \in pendingReads : LoadStatsResolved(r)
  \/ \E r \in pendingReads : LoadStatsFail(r)
  \/ \E r \in pendingReads : LoadLeaderboardResolved(r)
  \/ \E r \in pendingReads : LoadLeaderboardFail(r)
  \/ CloseLeaderboard
  \/ ToastTimeout

SpecScenario == InitScenario /\ [][NextScenario]_vars

(***************************************************************************)
(* Properties of the aggregation (checked under SpecBoard and SpecSort)    *)
(***************************************************************************)
\* the number of documents of a snapshot written by a user (userId)
AuthoredCount(usr, snap) ==
  Cardinality({i \in 1..Len(snap) : snap[i].userId = usr.uid})

\* a read in flight resolves in this step and a rank is computed
RankComputed(r) == LoadStatsResolved(r) \/ LoadLeaderboardResolved(r)

\* C8: when loadStats or loadLeaderboard computes the rank for a signed-in
\* user who wrote none of the documents read, the rank is 0.
C8_ZeroDocsRankZero ==
  [][ \A r \in pendingReads :
        (RankComputed(r) /\ r.user # NoUser /\ AuthoredCount(r.user, SnapOf(r)) = 0)
          => stats'.yourRank = 0 ]_vars

\* C9: when loadStats or loadLeaderboard computes the rank while no user is
\* signed in, the rank is 0.
C9_NoUserRankZero ==
  [][ \A r \in pendingReads :
        (RankComputed(r) /\ r.user = NoUser) => stats'.yourRank = 0 ]_vars

\* the position of the first document of an author in the collection read
FirstSeen(a) ==
  CHOOSE i \in 1..Len(store) :
    /\ AuthorOf(store[i]) = a
    /\ \A j \in 1..(i - 1) : AuthorOf(store[j]) # a

EnumeratedBefore(a, b) ==
  \/ IsIndexKey(a) /\ ~IsIndexKey(b)
  \/ IsIndexKey(a) /\ IsIndexKey(b) /\ IndexKeyValue[a] < IndexKeyValue[b]
  \/ ~IsIndexKey(a) /\ ~IsIndexKey(b) /\ FirstSeen(a) < FirstSeen(b)

CountOf(list, a) ==
  IF \E i \in 1..Len(list) : list[i].author = a
  THEN list[CHOOSE i \in 1..Len(list) : list[i].author = a].count
  ELSE 0

\* what the scenario collection shows on the map of each body
ScenarioMarkers ==
  /\ (lastSnapshot # <<>> /\ activeBody = "Mars") => Len(markers) = 3
  /\ (lastSnapshot # <<>> /\ activeBody = "Moon") => Len(markers) = 2

\* C11: with three documents for Mars by A, A, B and two for Moon by C, the
\* Mars view shows 3 markers, the Moon view 2, and the leaderboard reports
\* A=2, B=1, C=1, totalDiscoveries=5, totalExplorers=3.
C11_ScenarioAsStated ==
  /\ ScenarioMarkers
  /\ leaderboardData # <<>> =>
       /\ CountOf(leaderboardData, "A") = 2
       /\ CountOf(leaderboardData, "B") = 1
       /\ CountOf(leaderboardData, "C") = 1
       /\ stats.totalDiscoveries = 5
       /\ stats.totalExplorers = 3

\* C11 (amended): with three documents for Mars by A, A, B and two for Moon
\* by C, the Mars view shows 3 markers, the Moon view 2, and the leaderboard
\* reports A=2, B=1, C=2 in the order A, C, B, totalDiscoveries=5,
\* totalExplorers=3.
C11_ScenarioCounted ==
  /\ ScenarioMarkers
  /\ leaderboardData # <<>> =>
       /\ leaderboardData = << [author |-> "A", count |-> 2],
                               [author |-> "C", count |-> 2],
                               [author |-> "B", count |-> 1] >>
       /\ stats.totalDiscoveries = 5
       /\ stats.totalExplorers = 3

\* the Moon view shows its two markers after the leaderboard was computed
C11_Witness ==
  /\ activeBody = "Moon"
  /\ Len(markers) = 2
  /\ leaderboardData # <<>>
  /\ stats.totalDiscoveries = 5

\* the author names of the documents of a snapshot
AuthorNames(snap) == {AuthorOf(snap[i]) : i \in 1..Len(snap)}

RECURSIVE SumCounts(_)
SumCounts(counts) ==
  IF counts = <<>> THEN 0 ELSE Head(counts).count + SumCounts(Tail(counts))

\* C12: whenever a read resolves, totalDiscoveries is the number of
\* documents read, totalExplorers is the number of distinct author names
\* among them (a missing author counted as 'Anonymous'), and the per-author
\* counts sum to totalDiscoveries.
C12_AggregationTotals ==
  [][ \A r \in pendingReads :
        RankComputed(r) =>
          /\ stats'.totalDiscoveries = Len(SnapOf(r))
          /\ stats'.totalExplorers = Cardinality(AuthorNames(SnapOf(r)))
          /\ SumCounts(CountAuthors(SnapOf(r), Len(SnapOf(r))))
               = stats'.totalDiscoveries ]_vars

Min(a, b) == IF a < b THEN a ELSE b

\* C13: whenever loadLeaderboard resolves, the list has length
\* min(10, number of distinct authors), it is the head of the full
\* count-sorted list, and no author outside it has a strictly larger count
\* than an author inside it.
C13_TopN ==
  [][ \A r \in pendingReads :
        LoadLeaderboardResolved(r) =>
          /\ Len(leaderboardData')
               = Min(10, Cardinality(AuthorNames(SnapOf(r))))
          /\ leaderboardData'
               = SubSeq(SortedEntries(SnapOf(r)), 1, Len(leaderboardData'))
          /\ \A i \in 1..Len(SortedEntries(SnapOf(r))) :
               \A j \in 1..Len(leaderboardData') :
                 i > Len(leaderboardData') =>
                   SortedEntries(SnapOf(r))[i].count
                     <= leaderboardData'[j].count ]_vars

(***************************************************************************)
(* Properties of the write path (checked under SpecWrite and SpecForm)     *)
(***************************************************************************)
StoreDocs == {store[i] : i \in 1..Len(store)}

\* C3: session-gated writes -- no addDoc call is made while
\* auth.currentUser is null, and a write attempt made without a session
\* shows exactly one notice.
C3_SessionGatedWrites ==
  /\ \A w \in pendingWrites : w.session
  /\ (lastAttempt # <<>> /\ ~lastAttempt[1].session) =>
       (~lastAttempt[1].addDoc /\ lastAttempt[1].notices = 1)

\* C4: every document handed to addDoc, in flight or stored, has a text that
\* is non-empty and trimmed.
C4_NoEmptyTextWritten ==
  \A d \in {w.doc : w \in pendingWrites} \cup StoreDocs :
     d.text # <<>> /\ Trim(d.text) = d.text

\* a write is in flight for a title typed with a leading blank
C4_Witness ==
  /\ annotationTitle = <<" ", "a">>
  /\ \E w \in pendingWrites : w.doc.text = <<"a">>

\* the insert of w fails in this step
InsertFails(w) == AddDocRejected(w) \/ PromptAddDocRejected(w)

\* the page holds the input of a write: the creation form is open at its
\* position with its (trimmed) title
InputHeld(w) ==
  /\ newAnnotationPos = <<w.doc.lat, w.doc.lng>>
  /\ Trim(annotationTitle) = w.doc.text

\* C14: when the insert fails, exactly one error notice is shown, no
\* document is added, position, title and details are unchanged, and the
\* input of the failed write is still held by the page for a manual retry
\* (unless the user discarded it from the form while the insert was in
\* flight).
C14_WriteFailurePreservesInput ==
  [][ \A w \in pendingWrites :
        InsertFails(w) =>
          /\ toastTimers' = toastTimers + 1
          /\ toast' # ""
          /\ store' = store
          /\ formVars' = formVars
          /\ (InputHeld(w) \/ w.input = "prompt") => InputHeld(w)' ]_vars

\* C15: a submission with a session hands addDoc one document whose
\* position is the clicked one, whose author and user id are those of the
\* session ('Anonymous' without a display name), whose body is the active
\* body and whose text is the trimmed title; the click that opened the form
\* stored its position; a resolved insert shows one success notice.
C15_SubmittedDocument ==
  [][ /\ (HandleSubmitAnnotation /\ currentUser # NoUser) =>
           \E d \in pendingWrites' :
             /\ pendingWrites' = pendingWrites \cup {[doc |-> d.doc,
                                                      session |-> TRUE,
                                                      input |-> "form"]}
             /\ <<d.doc.lat, d.doc.lng>> = newAnnotationPos
             /\ d.doc.author = (IF currentUser.displayName = Null
                                THEN "Anonymous"
                                ELSE currentUser.displayName)
             /\ d.doc.userId = currentUser.uid
             /\ d.doc.celestialBody = activeBody
             /\ d.doc.text = Trim(annotationTitle)
      /\ \A p \in Positions :
           (MapClick(p) /\ currentUser # NoUser) => newAnnotationPos' = p
      /\ \A w \in pendingWrites :
           AddDocResolved(w) =>
             /\ toast' = "Discovery added! +1 to your count!"
             /\ toastTimers' = toastTimers + 1
             /\ store' = Append(store, w.doc) ]_vars

\* the document of a session without a display name is in the collection
\* and the success notice is shown
C15_Witness ==
  /\ currentUser = u3
  /\ Len(store) = 1
  /\ store[1].author = "Anonymous"
  /\ store[1].userId = "u3"
  /\ toast = "Discovery added! +1 to your count!"

(***************************************************************************)
(* Properties of the annotation sync loop (checked under Spec)             *)
(***************************************************************************)
MarkerSet == {markers[i] : i \in 1..Len(markers)}

CurrentListener == Listener(activeBody, showOnlyMyAnnotations, user)

\* C1: full replace -- once a notification has been processed, the number of
\* markers on the map is the number of documents of the latest notification,
\* whatever was on the map before (in the first variant too, whose handler
\* skips documents of another body).
C1_FullReplace ==
  /\ lastSnapshot # <<>> => Len(markers) = Len(lastSnapshot[1])
  /\ \A l \in subs :
       Len(OnSnapshotMarkersV1(markers, l, store, Snapshot(l, store)))
         = Len(Snapshot(l, store))

\* two documents shown after a notification replaced an earlier marker set
C1_Witness == lastSnapshot # <<>> /\ Len(markers) = 2 /\ pending = {}

\* C2: no cross-body leakage -- a step that changes the active body leaves
\* the map without markers and with no listener of another body, and a step
\* that puts markers on the map puts only markers built by a listener of the
\* body that is active after the step.
C2_NoCrossBodyLeakage ==
  [][ /\ activeBody' # activeBody =>
           /\ markers' = <<>>
           /\ \A l \in subs' : l.body = activeBody'
      /\ (markers' # markers /\ markers' # <<>>) =>
           \A i \in 1..Len(markers') : markers'[i].query.body = activeBody'
    ]_vars

\* the body was switched away from a body with documents, and the map shows
\* the one document of the new body only
C2_Witness ==
  /\ activeBody = "Moon"
  /\ Len(store) = 2
  /\ store[1].celestialBody = "Mars"
  /\ Len(markers) = 1

\* C5: every marker on the map was built from a document of the active body
C5_MarkersOfActiveBody ==
  \A m \in MarkerSet :
     /\ m.celestialBody = activeBody
     /\ store[m.id].celestialBody = activeBody

\* markers are shown for a body other than the initial one while the
\* collection also holds a document of another body
C5_Witness ==
  /\ activeBody # "Mars"
  /\ markers # <<>>
  /\ \E i \in 1..Len(store) : store[i].celestialBody # activeBody

\* C6: re-subscription -- exactly one listener is live, it is the listener of
\* the current (body, filter, user) closure, and every marker on the map was
\* built by that listener's query.
C6_SingleCurrentSubscription ==
  /\ subs = {CurrentListener}
  /\ pending \subseteq subs
  /\ \A m \in MarkerSet :
       m.query = [body |-> activeBody, author |-> QueryAuthor(CurrentListener)]

\* the filter is on for a body other than the initial one and markers are shown
C6_Witness ==
  /\ showOnlyMyAnnotations
  /\ activeBody = "Moon"
  /\ markers # <<>>

\* the ids of the documents of a body written by a user (userId)
RECURSIVE AuthoredBy(_, _, _, _)
AuthoredBy(usr, body, st, n) ==
  IF n = 0 THEN <<>>
  ELSE IF st[n].celestialBody = body /\ st[n].userId = usr.uid
       THEN Append(AuthoredBy(usr, body, st, n - 1), n)
       ELSE AuthoredBy(usr, body, st, n - 1)

\* C7: mine-only filter -- with a user signed in, the filter on and the
\* latest notification delivered, the markers are exactly the documents of
\* the active body that the current user wrote.
C7_MineOnlyExact ==
  (user # NoUser /\ showOnlyMyAnnotations /\ lastSnapshot # <<>> /\ pending = {})
    => lastSnapshot[1] = AuthoredBy(user, activeBody, store, Len(store))

(***************************************************************************)
(* Properties of the failing live query (checked under SpecListen) and of  *)
(* the tile layer (checked under SpecTile)                                 *)
(***************************************************************************)
\* the document ids of the markers on the map
MarkerIds == [i \in 1..Len(markers) |-> markers[i].id]

C17_LoggedOnceNoticedOnce ==
  /\ tileLogs <= 1
  /\ tileNotices = Min(1, tileErrors)

\* C17 (amended): within one activation of a body, every tile-load error is
\* logged, and any number of them produces exactly one notice; the flag is
\* set exactly when a notice was shown in this activation, so the first
\* tile error after a body change is reported again.
C17_LoggedEachNoticedOnce ==
  /\ tileLogs = tileErrors
  /\ tileNotices = Min(1, tileErrors)
  /\ tileErrorShown <=> tileErrors > 0

\* the second activation has reported its own tile errors with one notice
C17_Witness ==
  /\ activeBody = "Moon"
  /\ tileErrors = 2
  /\ tileNotices = 1

\* C18: the map has exactly one tile layer, that of the active body, which
\* layerRef refers to, and the map's maxZoom is that of the active body's
\* registry entry.
C18_TileBinding ==
  /\ tileLayers = {activeBody}
  /\ layerRef = <<activeBody>>
  /\ mapMaxZoom = celestialBodies[activeBody].maxZoom

\* the body was switched to Moon, whose maxZoom differs from that of Mars
C18_Witness ==
  /\ activeBody = "Moon"
  /\ layerRef = <<"Moon">>
  /\ mapMaxZoom = 8
  /\ markers # <<>>

(***************************************************************************)
(* Properties of the one-shot reads (checked under SpecStale)              *)
(***************************************************************************)
\* a read in flight settles in this step
Settles(r) ==
  \/ LoadStatsResolved(r)
  \/ LoadStatsFail(r)
  \/ LoadLeaderboardResolved(r)
  \/ LoadLeaderboardFail(r)

\* C19: a read in flight is never dropped by a teardown (session change,
\* body switch, closing the leaderboard): it leaves only by settling, and
\* when it resolves its result is written into stats (and the leaderboard)
\* with the rank of the user who started it, whoever is signed in now.
C19_NoCancellationOfReads ==
  [][ \A r \in pendingReads :
        /\ r \notin pendingReads' => Settles(r)
        /\ LoadStatsResolved(r) =>
             stats' = StatsOf(SnapOf(r), LoadStatsRank(r.user, SnapOf(r)))
        /\ LoadLeaderboardResolved(r) =>
             /\ stats' = StatsOf(SnapOf(r),
                                 LoadLeaderboardRank(r.user, SnapOf(r)))
             /\ leaderboardData' = LeaderboardOf(SnapOf(r)) ]_vars

\* nobody is signed in, yet stats holds the rank of the previous session's
\* user (no author is named 'Unknown', so no read started without a user
\* computes a positive rank)
C19_Witness ==
  /\ user = NoUser
  /\ stats.yourRank = 1
  /\ \A i \in 1..Len(store) : store[i].author # "Unknown"

(***************************************************************************)
(* Properties of the marker set as a view of the store (SpecLive)          *)
(***************************************************************************)
\* the markers are the result set of the current query
Synced == MarkerIds = Snapshot(CurrentListener, store)

\* document n was written and the current query admits it
Admitted(n) == Len(store) >= n /\ Matches(CurrentListener, store[n])

\* C20: after a successful write of a document that the current query
\* admits, the markers eventually include that document and equal the
\* result set of the current query, unless body, filter or session change
\* to a query that does not admit the document.
C20_EventuallyConsistent ==
  \A n \in 1..MaxWritten :
    Admitted(n) ~>
      \/ ~Admitted(n)
      \/ Synced /\ \E i \in 1..Len(markers) : markers[i].id = n

\* with the filter on, the user's own document is in the collection and
\* not yet on the map
C20_Witness ==
  /\ showOnlyMyAnnotations
  /\ store # <<>>
  /\ Matches(CurrentListener, store[Len(store)])
  /\ ~Synced

(***************************************************************************)
(* Unmount: the cleanups of the three effects run: the auth listener is    *)
(* unsubscribed, the interval cleared, the live query unsubscribed and     *)
(* the markers and the map removed.                                        *)
(***************************************************************************)
Unmount ==
  /\ mounted
  /\ mounted' = FALSE
  /\ intervals' = {}
  /\ subs' = CleanupListeners(subs)
  /\ pending' = pending \cap CleanupListeners(subs)
  /\ markers' = CleanupMarkers(markers)
  /\ lastSnapshot' = <<>>
  /\ UNCHANGED <<currentUser, user, activeBody, showOnlyMyAnnotations,
                 selectedAnnotation, formVars, writeVars, showLeaderboard,
                 leaderboardData, stats, pendingReads, toastVars, store>>
  /\ UNCHANGED tileVars

(***************************************************************************)
(* The statistics refresh over the life of the component: session         *)
(* changes, timer ticks, the leaderboard, reads settling, and unmount,     *)
(* after which no handler of the component runs.                           *)
(***************************************************************************)
NextRefresh ==
  \/ mounted /\ \E u \in Users \cup {NoUser} : OnAuthStateChanged(u)
  \/ mounted /\ \E u \in intervals : Tick(u)
  \/ mounted /\ LoadLeaderboard
  \/ mounted /\ \E r \in pendingReads : LoadStatsResolved(r)
  \/ mounted /\ \E r \in pendingReads : LoadStatsFail(r)
  \/ mounted /\ \E r \in pendingReads : LoadLeaderboardResolved(r)
  \/ mounted /\ \E r \in pendingReads : LoadLeaderboardFail(r)
  \/ mounted /\ CloseLeaderboard
  \/ mounted /\ ToastTimeout
  \/ Unmount

SpecRefresh == InitStale /\ [][NextRefresh]_vars

\* C21: while the component is mounted exactly one refresh timer is live,
\* the one of the current session, and none is live after unmount; every
\* tick of the timer and every opening of the leaderboard starts a read of
\* the collection, and a read that resolves recomputes the statistics
C21_PeriodicRefresh ==
  /\ [](IF mounted THEN intervals = {user} ELSE intervals = {})
  /\ [][ /\ \A u \in Users \cup {NoUser} :
              Tick(u) => Read("stats", u, Len(store)) \in pendingReads'
         /\ LoadLeaderboard =>
              Read("board", user, Len(store)) \in pendingReads'
         /\ \A r \in pendingReads :
              RankComputed(r) =>
                stats'.totalDiscoveries = Len(SnapOf(r)) ]_vars

\* unmounted after a session change and a recomputation
C21_Witness ==
  /\ ~mounted
  /\ user # NoUser
  /\ stats.totalDiscoveries > 0
  /\ intervals = {}

(***************************************************************************)
(* The annotation-details panel: a marker's click handler selects its      *)
(* annotation; the panel's backdrop and close button deselect it.          *)
(***************************************************************************)
\* marker.on('click', () => setSelectedAnnotation(annotation))
SelectAnnotation(i) ==
  /\ ~Backdrop
  /\ i \in 1..Len(markers)
  /\ selectedAnnotation' = <<markers[i]>>
  /\ UNCHANGED <<authVars, activeBody, showOnlyMyAnnotations, subs, pending,
                 markers, lastSnapshot, formVars, writeVars, boardVars,
                 toastVars, store>>
  /\ UNCHANGED tileVars

\* onClick={() => setSelectedAnnotation(null)}
CloseDetails ==
  /\ selectedAnnotation # <<>>
  /\ selectedAnnotation' = <<>>
  /\ UNCHANGED <<authVars, activeBody, showOnlyMyAnnotations, subs, pending,
                 markers, lastSnapshot, formVars, writeVars, boardVars,
                 toastVars, store>>
  /\ UNCHANGED tileVars

(***************************************************************************)
(* The three modals under a session that does not change, over a           *)
(* collection of one document.                                             *)
(***************************************************************************)
InitModal ==
  /\ store \in {<<d>> : d \in RemoteDocs}
  /\ \E u \in Users \cup {NoUser} : Mounted(u, {})

NextModal ==
  \/ \E l \in subs : OnSnapshot(l)
  \/ \E i \in 1..Len(markers) : SelectAnnotation(i)
  \/ CloseDetails
  \/ \E p \in Positions : MapClick(p)
  \/ CancelAnnotation
  \/ LoadLeaderboard
  \/ \E r \in pendingReads : LoadLeaderboardResolved(r)
  \/ \E r \in pendingReads : LoadLeaderboardFail(r)
  \/ CloseLeaderboard
  \/ ToastTimeout

SpecModal == InitModal /\ [][NextModal]_vars

\* C22: in every reachable state at most one of the new-annotation modal,
\* the leaderboard modal and the annotation-details panel is open
C22_OneModal ==
  /\ ~(newAnnotationPos # NoPos /\ showLeaderboard)
  /\ ~(newAnnotationPos # NoPos /\ selectedAnnotation # <<>>)
  /\ ~(showLeaderboard /\ selectedAnnotation # <<>>)

\* C23: every document written by the session (under SpecForm the session
\* does not change and wrote every document of the collection) carries as
\* author the string by which the session recognises its documents: the
\* mine-only query returns it, its marker is highlighted as the user's own
\* and the user has a rank
C23_AuthorIdentity ==
  \A i \in 1..Len(store) :
    /\ store[i].author = CurrentUserName(user)
    /\ Matches(Listener(store[i].celestialBody, TRUE, user), store[i])
    /\ MarkerOf(Listener(store[i].celestialBody, FALSE, user), store, i).mine
    /\ LoadStatsRank(user, store) >= 1
    /\ LoadLeaderboardRank(user, store) >= 1

(***************************************************************************)
(* A destination button activated from the keyboard (Tab to the button,    *)
(* Enter): the backdrop of an open modal covers the button for the         *)
(* pointer only, the button stays enabled and focusable.                   *)
(***************************************************************************)
SetActiveBodyByKey(b) ==
  /\ b # activeBody
  /\ activeBody' = b
  /\ MapEffect(b, showOnlyMyAnnotations, user)
  /\ UNCHANGED <<authVars, showOnlyMyAnnotations, selectedAnnotation,
                 formVars, writeVars, boardVars, toastVars, store>>
  /\ TileLayerEffect(b)
  /\ TileErrorReset

(***************************************************************************)
(* The creation form together with body switches, under a session that     *)
(* does not change.                                                        *)
(***************************************************************************)
NextTag ==
  \/ \E p \in Positions : MapClick(p)
  \/ \E t \in LiveTitles : SetAnnotationTitle(t)
  \/ CancelAnnotation
  \/ \E b \in Bodies : SetActiveBodyByKey(b)
  \/ HandleSubmitAnnotation
  \/ \E w \in pendingWrites : AddDocResolved(w)
  \/ \E w \in pendingWrites : AddDocRejected(w)
  \/ \E l \in subs : OnSnapshot(l)
  \/ ToastTimeout

SpecTag == InitForm /\ [][NextTag]_vars

\* C24: the document handed to addDoc by a submission is tagged with the
\* body that was active when the click that supplied its coordinates was
\* made
C24_TaggedWithClickedBody ==
  [][ HandleSubmitAnnotation =>
        \A w \in pendingWrites' \ pendingWrites :
          /\ w.doc.lat = newAnnotationPos[1]
          /\ w.doc.lng = newAnnotationPos[2]
          /\ w.doc.celestialBody = clickedBody ]_vars

(***************************************************************************)
(* Collection reads racing with a growing collection: other clients add    *)
(* documents while timer ticks and leaderboard openings start reads that   *)
(* settle in any order.                                                    *)
(***************************************************************************)
NextRace ==
  \/ \E d \in RemoteDocs : RemoteWrite(d)
  \/ \E u \in intervals : Tick(u)
  \/ LoadLeaderboard
  \/ \E r \in pendingReads : LoadStatsResolved(r)
  \/ \E r \in pendingReads : LoadStatsFail(r)
  \/ \E r \in pendingReads : LoadLeaderboardResolved(r)
  \/ \E r \in pendingReads : LoadLeaderboardFail(r)
  \/ CloseLeaderboard
  \/ \E l \in subs : OnSnapshot(l)
  \/ ToastTimeout

SpecRace == Init /\ [][NextRace]_vars

\* C25: a read that resolves never replaces the statistics of a read that
\* was started later: over the append-only collection the displayed
\* totalDiscoveries never decreases
C25_LatestReadWins ==
  [][ \A r \in pendingReads :
        RankComputed(r) =>
          stats'.totalDiscoveries >= stats.totalDiscoveries ]_vars

(***************************************************************************)
(* The leaderboard over two collections: one of twelve authors, ten with   *)
(* two documents each followed by 'A' and 'c@x' with one each, and one of  *)
(* two authors; sessions change while reads are in flight.                 *)
(***************************************************************************)
Crowd == <<"b1", "b2", "b3", "b4", "b5", "b6", "b7", "b8", "b9", "b10">>

CrowdStore ==
  [i \in 1..22 |->
     Doc(<<1, 1>>, <<"x">>, Null,
         IF i <= 20 THEN Crowd[((i - 1) \div 2) + 1]
         ELSE IF i = 21 THEN "A" ELSE "c@x",
         "Mars", Null)]

PairStore ==
  << Doc(<<1, 1>>, <<"x">>, Null, "A", "Mars", "u1"),
     Doc(<<1, 1>>, <<"x">>, Null, "c@x", "Mars", "u3"),
     Doc(<<1, 1>>, <<"x">>, Null, "c@x", "Moon", "u3") >>

InitRank ==
  /\ store \in {CrowdStore, PairStore}
  /\ InitUI

NextRank ==
  \/ \E u \in Users \cup {NoUser} : OnAuthStateChanged(u)
  \/ LoadLeaderboard
  \/ \E r \in pendingReads : LoadStatsResolved(r)
  \/ \E r \in pendingReads : LoadStatsFail(r)
  \/ \E r \in pendingReads : LoadLeaderboardResolved(r)
  \/ \E r \in pendingReads : LoadLeaderboardFail(r)
  \/ CloseLeaderboard
  \/ ToastTimeout

SpecRank == InitRank /\ [][NextRank]_vars

\* the rank agrees with the list for the name: where the name stands in the
\* list the rank is its position, and a rank within the list's length limit
\* is a position of the list that holds the name
RankAgrees(name, list, rank) ==
  /\ \A i \in 1..Len(list) : list[i].author = name => rank = i
  /\ rank \in 1..TopN => (rank <= Len(list) /\ list[rank].author = name)

\* C26, as stated: immediately after loadLeaderboard succeeds the rank
\* agrees with the list for the name of the user signed in at that moment
C26_RankAgreesCurrentUser ==
  [][ \A r \in pendingReads :
        LoadLeaderboardResolved(r) =>
          RankAgrees(CurrentUserName(user'), leaderboardData',
                     stats'.yourRank) ]_vars

\* C26, amended: immediately after loadLeaderboard succeeds the rank agrees
\* with the list for the name of the user who was signed in when
\* loadLeaderboard was called, and that name has a rank of at least 1
\* whenever it is the author of a document read, also beyond the tenth
\* place
C26_RankAgreesCallingUser ==
  [][ \A r \in pendingReads :
        LoadLeaderboardResolved(r) =>
          /\ RankAgrees(CurrentUserName(r.user), leaderboardData',
                        stats'.yourRank)
          /\ CurrentUserName(r.user) \in AuthorNames(SnapOf(r)) \ {ProtoKey}
               => stats'.yourRank >= 1 ]_vars

\* the leaderboard is open for a user ranked beyond the list
C26_Witness ==
  /\ showLeaderboard
  /\ Len(leaderboardData) = TopN
  /\ stats.yourRank > TopN
  /\ user # NoUser

\* the ids of the documents of the active body, of every author
DocsOfBody ==
  {i \in 1..Len(store) : store[i].celestialBody = activeBody}

\* C27: the live query is the one of the current body, flag and session;
\* while nobody is signed in its latest notification holds every document
\* of the active body whatever the mine-only flag says, and with a user
\* signed in and the flag set it holds exactly those whose author is that
\* user's name
C27_FlagNeedsSession ==
  /\ subs = {CurrentListener}
  /\ (user = NoUser /\ lastSnapshot # <<>> /\ pending = {})
       => {lastSnapshot[1][k] : k \in 1..Len(lastSnapshot[1])} = DocsOfBody
  /\ (user # NoUser /\ showOnlyMyAnnotations /\ lastSnapshot # <<>>
        /\ pending = {})
       => {lastSnapshot[1][k] : k \in 1..Len(lastSnapshot[1])}
            = {i \in DocsOfBody : store[i].author = CurrentUserName(user)}

\* signed out with the flag still set, two authors' markers on the map
C27_Witness ==
  /\ user = NoUser
  /\ showOnlyMyAnnotations
  /\ pending = {}
  /\ \E i, j \in 1..Len(markers) : markers[i].author # markers[j].author

\* C28: whenever the creation modal is closed the title and the details
\* are empty; Cancel, the backdrop and a successful submission each leave
\* the position unset and both texts empty
C28_FormReset ==
  /\ [](newAnnotationPos = NoPos =>
          (annotationTitle = <<>> /\ annotationDetails = <<>>))
  /\ [][ (CancelAnnotation \/ \E w \in pendingWrites : AddDocResolved(w)) =>
           /\ newAnnotationPos' = NoPos
           /\ annotationTitle' = <<>>
           /\ annotationDetails' = <<>> ]_vars

\* the modal is closed after a submission of a title and details succeeded
C28_Witness ==
  /\ newAnnotationPos = NoPos
  /\ annotationTitle = <<>>
  /\ Len(store) = 1
  /\ store[1].details # Null

\* C29: a failed read of loadLeaderboard leaves leaderboardData, stats and
\* showLeaderboard as they were and shows one notice; a failed read of
\* loadStats leaves stats as it was and shows no notice
C29_FailedReadsChangeNothing ==
  [][ \A r \in pendingReads :
        /\ LoadLeaderboardFail(r) =>
             /\ leaderboardData' = leaderboardData
             /\ stats' = stats
             /\ showLeaderboard' = showLeaderboard
             /\ toast' = "Failed to load leaderboard"
             /\ toastTimers' = toastTimers + 1
        /\ LoadStatsFail(r) =>
             /\ stats' = stats
             /\ leaderboardData' = leaderboardData
             /\ showLeaderboard' = showLeaderboard
             /\ toastVars' = toastVars ]_vars

\* the leaderboard was loaded and closed, and a later loadLeaderboard failed
C29_Witness ==
  /\ toast = "Failed to load leaderboard"
  /\ ~showLeaderboard
  /\ leaderboardData # <<>>
  /\ stats.totalDiscoveries > 0

(***************************************************************************)
(* handleSignIn and handleSignOut after a rejected await: console.error    *)
(* and a notice.                                                           *)
(***************************************************************************)
SignInFailed ==
  /\ ShowToastUpTo("Sign in failed", MaxNotices)
  /\ UNCHANGED <<authVars, mapVars, formVars, writeVars, boardVars, store>>
  /\ UNCHANGED tileVars

SignOutFailed ==
  /\ currentUser # NoUser
  /\ ShowToastUpTo("Sign out failed", MaxNotices)
  /\ UNCHANGED <<authVars, mapVars, formVars, writeVars, boardVars, store>>
  /\ UNCHANGED tileVars

(***************************************************************************)
(* Notices that overlap: failing sign-in and sign-out attempts, map clicks *)
(* and tile errors, each calling showToast, and the notice timers.         *)
(***************************************************************************)
NextToast ==
  \/ SignInFailed
  \/ SignOutFailed
  \/ \E p \in Positions : MapClick(p)
  \/ CancelAnnotation
  \/ \E b \in Bodies : SetActiveBody(b)
  \/ TileError
  \/ ToastTimeout

SpecToast == InitForm /\ [][NextToast]_vars

\* C30: a notice timer that fires clears the message only if it is the
\* timer of the showToast call that set the message, that is, only if no
\* later call's timer is pending; the message of a later call stays
C30_TimersDoNotInterfere ==
  [][ ToastTimeout => (toastTimers = 1 \/ toast' = toast) ]_vars

====
